---- MODULE Spec2Model ----
(***************************************************************************)
(* Model of the quickswarm maintenance scripts:                            *)
(*   scripts/deploy-networks.py   (the network reconciler)                 *)
(*   scripts/swarm-addworker.py   (worker joiner, config.toml variant)     *)
(*   scripts/swarm-add_worker.py  (worker joiner, environment-file variant)*)
(*   scripts/utils/loadenv.py     (environment-file loader)                *)
(* Each script is one sequential process.  Every external command the      *)
(* script runs is appended to cmds with its argv and its outcome; the      *)
(* orchestrator's answer to a command is the environment's choice.         *)
(***************************************************************************)
EXTENDS Integers, Sequences, FiniteSets, TLC

VARIABLES
    script,     \* which script this run executes
    pc,         \* position of the process in the script
    cfgFile,    \* config.toml on disk: [exists, valid, data]
    config,     \* deploy-networks.py main: the loaded configuration table
    existing,   \* deploy-networks.py main: existing_networks
    live,       \* the orchestrator's networks: name -> [present, driver, attachable]
    i,          \* deploy-networks.py main: index of the entry the for loop is at
    cmds,       \* external commands run so far: <<[argv, ok]>>
    rows,       \* deploy-networks.py main: rows added to the results table
    exit,       \* process exit status, Running while the process runs
    raised,     \* the exception that ended the run, "" if none
    envFile,    \* ./stacks/.env on disk: [exists, lines]
    environ,    \* the process environment (os.environ)
    typed,      \* what the operator types at the worker-IP prompt
    lineNo,     \* loadenv.py load_env: index of the line the for loop is at
    manager_ip, \* joiners' main: manager_ip
    token,      \* joiners' main: token / worker_token
    new_worker_ip, \* swarm-add_worker.py main: new_worker_ip
    launch      \* how the interpreter was started: "path" or "module" (-m)

vars == <<script, pc, cfgFile, config, existing, live, i, cmds, rows, exit,
          raised, envFile, environ, typed, lineNo, manager_ip, token,
          new_worker_ip, launch>>

netVars == <<config, existing, live, i, rows>>
joinVars == <<envFile, environ, typed, lineNo, manager_ip, token, new_worker_ip, launch>>

----------------------------------------------------------------------------
(* Bounds and input alphabets *)

MaxNets == 2

Names == {"edge", "backend"}
DriverValues == {"bridge", ""}
Running == -1

(* Python's None, for a str-typed slot *)
None == <<"None">>

RECURSIVE SeqsUpTo(_, _)
SeqsUpTo(S, n) ==
    IF n = 0 THEN {<<>>}
    ELSE LET shorter == SeqsUpTo(S, n - 1)
         IN shorter \cup {Append(s, x) : s \in {t \in shorter : Len(t) = n - 1}, x \in S}

----------------------------------------------------------------------------
(* deploy-networks.py *)

(* dict.get(key, default) on a TOML table *)
Get(table, key, default) ==
    IF key \in DOMAIN table THEN table[key] ELSE default

(* the tables a networks list may hold: name, optional driver, optional attachable *)
NetworkTables ==
    {[name |-> n] : n \in Names}
    \cup {[name |-> n, driver |-> d] : n \in Names, d \in DriverValues}
    \cup {[name |-> n, attachable |-> a] : n \in Names, a \in BOOLEAN}
    \cup {[name |-> n, driver |-> d, attachable |-> a] :
            n \in Names, d \in DriverValues, a \in BOOLEAN}

NoTable == [title |-> "quickswarm"]

ConfigFiles ==
    {[exists |-> FALSE, valid |-> FALSE, data |-> NoTable],
     [exists |-> TRUE, valid |-> FALSE, data |-> NoTable],
     [exists |-> TRUE, valid |-> TRUE, data |-> NoTable]}
    \cup {[exists |-> TRUE, valid |-> TRUE, data |-> [networks |-> ns]] :
            ns \in SeqsUpTo(NetworkTables, MaxNets)}

Absent == [present |-> FALSE, driver |-> "", attachable |-> FALSE]
Legacy == [present |-> TRUE, driver |-> "macvlan", attachable |-> FALSE]

ListCommand == <<"docker", "network", "ls", "--format", "{{.Name}}">>

RemoveCommand(name) == <<"docker", "network", "rm", name>>

CreateCommand(network_name, driver, attachable) ==
    <<"docker", "network", "create", "--scope", "swarm", network_name>>
    \o (IF driver # "" THEN <<"--driver", driver>> ELSE <<>>)
    \o (IF attachable THEN <<"--attachable">> ELSE <<>>)

(* what the orchestrator makes of a create command line *)
DefaultDriver == "bridge"
Requested(argv) ==
    [present |-> TRUE,
     driver |-> IF \E k \in DOMAIN argv : argv[k] = "--driver"
                THEN argv[(CHOOSE k \in DOMAIN argv : argv[k] = "--driver") + 1]
                ELSE DefaultDriver,
     attachable |-> \E k \in DOMAIN argv : argv[k] = "--attachable"]

(* the orchestrator rejects a create of a live name and a remove of a name
   that is not live; otherwise either outcome is possible *)
CreateOutcomes(name) == IF live[name].present THEN {FALSE} ELSE {TRUE, FALSE}
RemoveOutcomes(name) == IF live[name].present THEN {TRUE, FALSE} ELSE {FALSE}

NeedsRemoveInverted(name, existing_networks) == name \notin existing_networks
NeedsRemoveAlways(name, existing_networks) == TRUE
NeedsRemove(name, existing_networks) == name \in existing_networks

ExistingOnFailure == {}

StatusOfOptimistic(success) == "Created"
StatusOf(success) == IF success THEN "Created" ELSE "Failed"

AttachableCell(attachable) == IF attachable THEN "Yes" ELSE "No"

CompletionExitAggregate(table) ==
    IF \E k \in DOMAIN table : table[k].status = "Failed" THEN 1 ELSE 0
CompletionExit(table) == 0

TerminateWithoutStatus(code, exc) ==
    /\ pc' = "exited"
    /\ exit' = 0
    /\ raised' = exc
Terminate(code, exc) ==
    /\ pc' = "exited"
    /\ exit' = code
    /\ raised' = exc

LoadConfig ==
    /\ script = "deploy-networks"
    /\ pc = "load_config"
    /\ IF ~cfgFile.exists THEN
           Terminate(1, "SystemExit") /\ UNCHANGED config
       ELSE IF ~cfgFile.valid THEN
           Terminate(1, "SystemExit") /\ UNCHANGED config
       ELSE
           /\ config' = cfgFile.data
           /\ pc' = "check_networks"
           /\ UNCHANGED <<exit, raised>>
    /\ UNCHANGED <<script, cfgFile, existing, live, i, cmds, rows>>
    /\ UNCHANGED joinVars

(* line 145 passes err=True to Console.print, which has no such parameter:
   the call raises TypeError and the interpreter exits with status 1 *)
CheckNetworks ==
    /\ script = "deploy-networks"
    /\ pc = "check_networks"
    /\ IF "networks" \notin DOMAIN config THEN
           Terminate(1, "TypeError")
       ELSE
           /\ pc' = "get_existing_networks"
           /\ UNCHANGED <<exit, raised>>
    /\ UNCHANGED <<script, cfgFile, config, existing, live, i, cmds, rows>>
    /\ UNCHANGED joinVars

GetExistingNetworksUncaught ==
    /\ script = "deploy-networks"
    /\ pc = "get_existing_networks"
    /\ \E ok \in BOOLEAN :
        /\ cmds' = Append(cmds, [argv |-> ListCommand, ok |-> ok])
        /\ IF ok THEN
               /\ existing' = {n \in Names : live[n].present}
               /\ i' = 1
               /\ pc' = "for"
               /\ UNCHANGED <<exit, raised>>
           ELSE
               /\ Terminate(1, "CalledProcessError")
               /\ UNCHANGED <<existing, i>>
    /\ UNCHANGED <<script, cfgFile, config, live, rows>>
    /\ UNCHANGED joinVars
GetExistingNetworks ==
    /\ script = "deploy-networks"
    /\ pc = "get_existing_networks"
    /\ \E ok \in BOOLEAN :
        /\ cmds' = Append(cmds, [argv |-> ListCommand, ok |-> ok])
        /\ existing' = IF ok THEN {n \in Names : live[n].present}
                       ELSE ExistingOnFailure
    /\ i' = 1
    /\ pc' = "for"
    /\ UNCHANGED <<script, cfgFile, config, live, rows, exit, raised>>
    /\ UNCHANGED joinVars

DeleteExisting ==
    /\ script = "deploy-networks"
    /\ pc = "for"
    /\ i <= Len(config.networks)
    /\ LET name == Get(config.networks[i], "name", None) IN
        /\ NeedsRemove(name, existing)
        /\ \E ok \in RemoveOutcomes(name) :
            /\ cmds' = Append(cmds, [argv |-> RemoveCommand(name), ok |-> ok])
            /\ live' = IF ok THEN [live EXCEPT ![name] = Absent] ELSE live
    /\ pc' = "create"
    /\ UNCHANGED <<script, cfgFile, config, existing, i, rows, exit, raised>>
    /\ UNCHANGED joinVars

SkipDelete ==
    /\ script = "deploy-networks"
    /\ pc = "for"
    /\ i <= Len(config.networks)
    /\ ~NeedsRemove(Get(config.networks[i], "name", None), existing)
    /\ pc' = "create"
    /\ UNCHANGED <<script, cfgFile, config, existing, live, i, cmds, rows, exit, raised>>
    /\ UNCHANGED joinVars

CreateNetwork ==
    /\ script = "deploy-networks"
    /\ pc = "create"
    /\ LET network == config.networks[i]
           name == Get(network, "name", None)
           driver == Get(network, "driver", "overlay")
           attachable == Get(network, "attachable", TRUE)
           command == CreateCommand(name, driver, attachable)
       IN \E success \in CreateOutcomes(name) :
            /\ cmds' = Append(cmds, [argv |-> command, ok |-> success])
            /\ live' = IF success THEN [live EXCEPT ![name] = Requested(command)]
                       ELSE live
            /\ rows' = Append(rows, [name |-> name,
                                     status |-> StatusOf(success),
                                     driver |-> driver,
                                     attachable |-> AttachableCell(attachable)])
    /\ i' = i + 1
    /\ pc' = "for"
    /\ UNCHANGED <<script, cfgFile, config, existing, exit, raised>>
    /\ UNCHANGED joinVars

DisplayResults ==
    /\ script = "deploy-networks"
    /\ pc = "for"
    /\ i > Len(config.networks)
    /\ pc' = "exited"
    /\ exit' = CompletionExit(rows)
    /\ UNCHANGED <<script, cfgFile, config, existing, live, i, cmds, rows, raised>>
    /\ UNCHANGED joinVars

JoinIdle ==
    /\ envFile = [exists |-> FALSE, lines |-> <<>>]
    /\ environ = [k \in {"MANAGER_IP", "TOKEN_WORKER"} |-> None]
    /\ typed = <<>>
    /\ lineNo = 0
    /\ manager_ip = None
    /\ token = None
    /\ new_worker_ip = None
    /\ launch = "path"

InitNet ==
    /\ script = "deploy-networks"
    /\ pc = "load_config"
    /\ cfgFile \in ConfigFiles
    /\ config = NoTable
    /\ existing = {}
    /\ live \in [Names -> {Absent, Legacy}]
    /\ i = 0
    /\ cmds = <<>>
    /\ rows = <<>>
    /\ exit = Running
    /\ raised = ""
    /\ JoinIdle

NextNet ==
    \/ LoadConfig
    \/ CheckNetworks
    \/ GetExistingNetworks
    \/ DeleteExisting
    \/ SkipDelete
    \/ CreateNetwork
    \/ DisplayResults

SpecNet == InitNet /\ [][NextNet]_vars

----------------------------------------------------------------------------
(* Strings of the joiners are sequences of text chunks, so that slicing,   *)
(* stripping, splitting and concatenation are computed, not assumed.       *)

MaxLines == 2

ManagerIp == <<"10.0.0.5">>
WorkerToken == <<"SWMTKN-1-abc">>
WorkerIp == <<"10.0.0.9">>
Whitespace == {" ", "\n"}

(* Python truthiness of an Optional[str]: None and "" are falsy *)
FalsyOnlyNone(v) == v = None
Falsy(v) == v = None \/ v = <<>>

RECURSIVE LStrip(_)
LStrip(s) ==
    IF s # <<>> /\ Head(s) \in Whitespace THEN LStrip(Tail(s)) ELSE s

RECURSIVE RStrip(_)
RStrip(s) ==
    IF s # <<>> /\ s[Len(s)] \in Whitespace THEN RStrip(SubSeq(s, 1, Len(s) - 1)) ELSE s

(* str.strip() *)
Strip(s) == RStrip(LStrip(s))

(* str.startswith("#") *)
StartsWithHash(s) == s # <<>> /\ s[1] = "#"

(* str.split("=", 1) *)
SplitOnce(s) ==
    IF \E k \in DOMAIN s : s[k] = "="
    THEN LET k == CHOOSE k \in DOMAIN s :
                    s[k] = "=" /\ \A m \in 1..(k - 1) : s[m] # "="
         IN <<SubSeq(s, 1, k - 1), SubSeq(s, k + 1, Len(s))>>
    ELSE <<s>>

(* the condition of loadenv.py line 12 *)
IsAssignmentLine(line) == Strip(line) # <<>> /\ ~StartsWithHash(line)

(* loadenv.py imports nothing: the name os is unbound in load_env *)
OsBound == FALSE

(* the join command line of both add_worker functions *)
JoinCommand(ip, tok) ==
    <<<<"docker">>, <<"swarm">>, <<"join">>, <<"--token=">> \o tok, ip \o <<":2377">>>>

JoinExitIgnored(ok) == 0
JoinExit(ok) == IF ok THEN 0 ELSE 1

EnvLines ==
    {<<"\n">>,
     <<"#", " swarm", "\n">>,
     <<" ", "#", " swarm", "\n">>,
     <<"MANAGER_IP", "=">> \o ManagerIp \o <<"\n">>,
     <<"TOKEN_WORKER", "=">> \o WorkerToken \o <<"\n">>,
     <<"MANAGER_IP", "=", "\n">>}

EnvFiles ==
    {[exists |-> FALSE, lines |-> <<>>]}
    \cup {[exists |-> TRUE, lines |-> ls] : ls \in SeqsUpTo(EnvLines, MaxLines)}

EnvKeys == {"MANAGER_IP", "TOKEN_WORKER"}

Environments ==
    {[MANAGER_IP |-> m, TOKEN_WORKER |-> t] :
        m \in {None, <<>>, ManagerIp}, t \in {None, <<>>, WorkerToken}}

EmptyTable == [k \in {} |-> <<>>]

SwarmTables ==
    {[manager |-> <<"SWMTKN-1-mgr">>]}
    \cup {[manager |-> <<"SWMTKN-1-mgr">>, manager_ip |-> m] : m \in {<<>>, ManagerIp}}
    \cup {[manager |-> <<"SWMTKN-1-mgr">>, worker |-> t] : t \in {<<>>, WorkerToken}}
    \cup {[manager |-> <<"SWMTKN-1-mgr">>, manager_ip |-> m, worker |-> t] :
            m \in {<<>>, ManagerIp}, t \in {<<>>, WorkerToken}}

SwarmConfigFiles ==
    {[exists |-> FALSE, valid |-> FALSE, data |-> NoTable],
     [exists |-> TRUE, valid |-> FALSE, data |-> NoTable],
     [exists |-> TRUE, valid |-> TRUE, data |-> NoTable]}
    \cup {[exists |-> TRUE, valid |-> TRUE, data |-> [k \in {"swarm-config"} |-> t]] :
            t \in SwarmTables}

NetIdle ==
    /\ existing = {}
    /\ live = [n \in Names |-> Absent]
    /\ i = 0
    /\ rows = <<>>

----------------------------------------------------------------------------
(* swarm-addworker.py: the joiner reading config.toml.  main turns every   *)
(* exception into SystemExit(1); raised keeps the exception it came from.  *)

TomlLoadConfig ==
    /\ script = "swarm-addworker"
    /\ pc = "load_config"
    /\ IF ~cfgFile.exists THEN
           Terminate(1, "FileNotFoundError") /\ UNCHANGED config
       ELSE IF ~cfgFile.valid THEN
           Terminate(1, "TOMLDecodeError") /\ UNCHANGED config
       ELSE
           /\ config' = Get(cfgFile.data, "swarm-config", EmptyTable)
           /\ pc' = "main"
           /\ UNCHANGED <<exit, raised>>
    /\ UNCHANGED <<script, cfgFile, existing, live, i, cmds, rows>>
    /\ UNCHANGED joinVars

TomlMain ==
    /\ script = "swarm-addworker"
    /\ pc = "main"
    /\ manager_ip' = Get(config, "manager_ip", None)
    /\ token' = Get(config, "worker", None)
    /\ IF Falsy(manager_ip') \/ Falsy(token') THEN
           Terminate(1, "ValueError")
       ELSE
           /\ pc' = "add_worker"
           /\ UNCHANGED <<exit, raised>>
    /\ UNCHANGED <<script, cfgFile, config, existing, live, i, cmds, rows>>
    /\ UNCHANGED <<envFile, environ, typed, lineNo, new_worker_ip, launch>>

TomlAddWorker ==
    /\ script = "swarm-addworker"
    /\ pc = "add_worker"
    /\ IF Falsy(manager_ip) \/ Falsy(token) THEN
           Terminate(1, "ValueError") /\ UNCHANGED cmds
       ELSE \E ok \in BOOLEAN :
           /\ cmds' = Append(cmds, [argv |-> JoinCommand(manager_ip, token), ok |-> ok])
           /\ Terminate(JoinExit(ok), IF ok THEN "" ELSE "RuntimeError")
    /\ UNCHANGED <<script, cfgFile, config, existing, live, i, rows>>
    /\ UNCHANGED joinVars

----------------------------------------------------------------------------
(* swarm-add_worker.py with utils/loadenv.py: the joiner reading           *)
(* ./stacks/.env and prompting for the worker IP                           *)

(* line 6 is a relative import: it needs a parent package *)
EnvImport ==
    /\ script = "swarm-add_worker"
    /\ pc = "import"
    /\ IF launch = "path" THEN
           Terminate(1, "ImportError")
       ELSE
           /\ pc' = "main"
           /\ UNCHANGED <<exit, raised>>
    /\ UNCHANGED <<script, cfgFile, config, existing, live, i, cmds, rows>>
    /\ UNCHANGED joinVars

EnvCheckFile ==
    /\ script = "swarm-add_worker"
    /\ pc = "main"
    /\ IF ~envFile.exists THEN
           Terminate(1, "FileNotFoundError") /\ UNCHANGED lineNo
       ELSE
           /\ pc' = "load_env"
           /\ lineNo' = 1
           /\ UNCHANGED <<exit, raised>>
    /\ UNCHANGED <<script, cfgFile, config, existing, live, i, cmds, rows>>
    /\ UNCHANGED <<envFile, environ, typed, manager_ip, token, new_worker_ip, launch>>

LoadEnvLine ==
    /\ script = "swarm-add_worker"
    /\ pc = "load_env"
    /\ lineNo <= Len(envFile.lines)
    /\ LET line == envFile.lines[lineNo]
           parts == SplitOnce(Strip(line))
       IN IF ~IsAssignmentLine(line) THEN
              /\ lineNo' = lineNo + 1
              /\ UNCHANGED <<pc, exit, raised, environ>>
          ELSE IF Len(parts) # 2 THEN
              Terminate(1, "ValueError") /\ UNCHANGED <<lineNo, environ>>
          ELSE IF ~OsBound THEN
              Terminate(1, "NameError") /\ UNCHANGED <<lineNo, environ>>
          ELSE
              /\ environ' = [k \in EnvKeys |->
                                IF <<k>> = parts[1] THEN parts[2] ELSE environ[k]]
              /\ lineNo' = lineNo + 1
              /\ UNCHANGED <<pc, exit, raised>>
    /\ UNCHANGED <<script, cfgFile, config, existing, live, i, cmds, rows>>
    /\ UNCHANGED <<envFile, typed, manager_ip, token, new_worker_ip, launch>>

EnvGetenv ==
    /\ script = "swarm-add_worker"
    /\ pc = "load_env"
    /\ lineNo > Len(envFile.lines)
    /\ manager_ip' = environ["MANAGER_IP"]
    /\ token' = environ["TOKEN_WORKER"]
    /\ IF Falsy(manager_ip') \/ Falsy(token') THEN
           Terminate(1, "ValueError")
       ELSE
           /\ pc' = "input"
           /\ UNCHANGED <<exit, raised>>
    /\ UNCHANGED <<script, cfgFile, config, existing, live, i, cmds, rows>>
    /\ UNCHANGED <<envFile, environ, typed, lineNo, new_worker_ip, launch>>

EnvInput ==
    /\ script = "swarm-add_worker"
    /\ pc = "input"
    /\ new_worker_ip' = typed
    /\ pc' = "add_worker"
    /\ UNCHANGED <<script, cfgFile, config, existing, live, i, cmds, rows, exit, raised>>
    /\ UNCHANGED <<envFile, environ, typed, lineNo, manager_ip, token, launch>>

EnvAddWorker ==
    /\ script = "swarm-add_worker"
    /\ pc = "add_worker"
    /\ IF Falsy(manager_ip) \/ Falsy(token) \/ Falsy(new_worker_ip) THEN
           Terminate(1, "ValueError") /\ UNCHANGED cmds
       ELSE \E ok \in BOOLEAN :
           /\ cmds' = Append(cmds, [argv |-> JoinCommand(manager_ip, token), ok |-> ok])
           /\ Terminate(JoinExit(ok), IF ok THEN "" ELSE "RuntimeError")
    /\ UNCHANGED <<script, cfgFile, config, existing, live, i, rows>>
    /\ UNCHANGED joinVars

InitJoin ==
    /\ script \in {"swarm-addworker", "swarm-add_worker"}
    /\ cmds = <<>>
    /\ exit = Running
    /\ raised = ""
    /\ lineNo = 0
    /\ manager_ip = None
    /\ token = None
    /\ new_worker_ip = None
    /\ config = NoTable
    /\ NetIdle
    /\ IF script = "swarm-addworker" THEN
           /\ pc = "load_config"
           /\ cfgFile \in SwarmConfigFiles
           /\ envFile = [exists |-> FALSE, lines |-> <<>>]
           /\ environ = [k \in EnvKeys |-> None]
           /\ typed = <<>>
           /\ launch = "path"
       ELSE
           /\ pc = "import"
           /\ cfgFile = [exists |-> FALSE, valid |-> FALSE, data |-> NoTable]
           /\ envFile \in EnvFiles
           /\ environ \in Environments
           /\ typed \in {<<>>, WorkerIp}
           /\ launch \in {"path", "module"}

NextJoin ==
    \/ TomlLoadConfig
    \/ TomlMain
    \/ TomlAddWorker
    \/ EnvImport
    \/ EnvCheckFile
    \/ LoadEnvLine
    \/ EnvGetenv
    \/ EnvInput
    \/ EnvAddWorker

SpecJoin == InitJoin /\ [][NextJoin]_vars

----------------------------------------------------------------------------
(* Properties of the network reconciler, over the behaviours of SpecNet *)

ConfigLoads ==
    cfgFile.exists /\ cfgFile.valid /\ "networks" \in DOMAIN cfgFile.data

Declared == IF ConfigLoads THEN cfgFile.data.networks ELSE <<>>

EntryName(k) == Declared[k].name

EntryRequest(k) ==
    Requested(CreateCommand(EntryName(k),
                            Get(Declared[k], "driver", "overlay"),
                            Get(Declared[k], "attachable", TRUE)))

IsList(c) == c.argv[3] = "ls"
IsRemove(c) == c.argv[3] = "rm"
IsCreate(c) == c.argv[3] = "create"

Creates == {j \in DOMAIN cmds : IsCreate(cmds[j])}
Removes == {j \in DOMAIN cmds : IsRemove(cmds[j])}

(* position in cmds of the create issued for entry k *)
CreateAt(k) ==
    CHOOSE j \in Creates : Cardinality({m \in Creates : m <= j}) = k

EntriesOf(n) == {k \in DOMAIN Declared : EntryName(k) = n}
DeclaredNames == {EntryName(k) : k \in DOMAIN Declared}
ListFailed == cmds # <<>> /\ IsList(cmds[1]) /\ ~cmds[1].ok
ListSucceeded == cmds # <<>> /\ IsList(cmds[1]) /\ cmds[1].ok
Progress == pc # "exited" => ENABLED NextNet

(* C1: for every entry whose name is in the existing set returned by the
   single list query, the remove of that name is the command issued right
   before that entry's create; a remove is never issued after the create of
   its entry and is always followed by that create. *)
C1_RemoveBeforeCreate ==
    /\ \A j \in DOMAIN cmds : IsList(cmds[j]) => j = 1
    /\ Cardinality(Creates) <= Len(Declared)
    /\ \A k \in 1..Cardinality(Creates) :
        EntryName(k) \in existing =>
            /\ CreateAt(k) > 1
            /\ cmds[CreateAt(k) - 1].argv = RemoveCommand(EntryName(k))
    /\ \A j \in Removes :
        IF j < Len(cmds)
        THEN IsCreate(cmds[j + 1]) /\ cmds[j + 1].argv[6] = cmds[j].argv[4]
        ELSE pc = "create" /\ EntryName(i) = cmds[j].argv[4]

C1_Witness ==
    /\ pc = "exited"
    /\ exit = 0
    /\ \E k \in DOMAIN Declared : EntryName(k) \in existing
    /\ \E j \in Removes : ~cmds[j].ok

(* C2: a remove is issued for a name only if the name is declared and in the
   existing set; an entry whose name is not in the existing set gets its
   create with no remove before it; a live network that is not declared is
   never the target of a remove and stays live. *)
C2_RemoveOnlyDeclaredExisting ==
    /\ \A j \in Removes :
        /\ cmds[j].argv[4] \in existing
        /\ cmds[j].argv[4] \in DeclaredNames
    /\ \A k \in 1..Cardinality(Creates) :
        EntryName(k) \notin existing =>
            /\ CreateAt(k) > 1
            /\ ~IsRemove(cmds[CreateAt(k) - 1])
    /\ \A n \in Names \ DeclaredNames :
        ListSucceeded => (live[n].present <=> n \in existing)
                         /\ (live[n].present => live[n] = Legacy)

C2_Witness ==
    /\ pc = "exited"
    /\ exit = 0
    /\ \E n \in existing : n \notin DeclaredNames /\ live[n].present
    /\ \E k \in DOMAIN Declared : EntryName(k) \notin existing
    /\ Removes = {}

(* C3: one create and one report row per entry, in configuration order,
   whatever failed before; the row's status is Created exactly when that
   entry's create succeeded, Failed otherwise. *)
C3_OneRowPerEntry ==
    ConfigLoads =>
        /\ Len(rows) <= Len(Declared)
        /\ Cardinality(Creates) = Len(rows)
        /\ \A k \in 1..Len(rows) :
            LET driver == Get(Declared[k], "driver", "overlay")
                attachable == Get(Declared[k], "attachable", TRUE)
                c == cmds[CreateAt(k)]
            IN  /\ c.argv = CreateCommand(EntryName(k), driver, attachable)
                /\ rows[k].name = EntryName(k)
                /\ rows[k].driver = driver
                /\ rows[k].attachable = (IF attachable THEN "Yes" ELSE "No")
                /\ rows[k].status \in {"Created", "Failed"}
                /\ rows[k].status = "Created" <=> c.ok
        /\ pc = "exited" => Len(rows) = Len(Declared)
        /\ Progress

C3_Witness ==
    /\ pc = "exited"
    /\ Len(rows) = 2
    /\ rows[1].status = "Failed"
    /\ rows[2].status = "Created"
    /\ \E j \in Removes : ~cmds[j].ok

(* C4: when the configuration loads and has a networks list, the run always
   proceeds to its end and ends with exit status 0, whatever failed; an
   empty list gives an empty report. *)
C4_ExitZeroWhenConfigLoads ==
    ConfigLoads =>
        /\ Progress
        /\ pc = "exited" =>
            /\ exit = 0
            /\ raised = ""
            /\ Declared = <<>> => rows = <<>> /\ Len(cmds) = 1

C4_Witness ==
    /\ pc = "exited"
    /\ exit = 0
    /\ ListFailed
    /\ Len(rows) = 2
    /\ \A k \in DOMAIN rows : rows[k].status = "Failed"

(* C5: a missing or unparsable configuration file, or one with no networks
   key, ends the run with a non-zero exit status and no external command. *)
C5_ConfigErrorStopsRun ==
    ~ConfigLoads =>
        /\ cmds = <<>>
        /\ rows = <<>>
        /\ Progress
        /\ pc = "exited" => exit >= 1

C5_Witness ==
    /\ pc = "exited"
    /\ cfgFile.exists
    /\ cfgFile.valid
    /\ "networks" \notin DOMAIN cfgFile.data
    /\ exit = 1
    /\ \E n \in Names : live[n].present

(* C6: when the list query fails the existing set is empty and the run goes
   on: no remove is issued and every entry still gets its create. *)
C6_ListFailureMeansEmpty ==
    ListFailed =>
        /\ existing = {}
        /\ Removes = {}
        /\ Progress
        /\ pc = "exited" => Cardinality(Creates) = Len(Declared) /\ exit = 0

C6_Witness ==
    /\ pc = "exited"
    /\ ListFailed
    /\ Len(Declared) = 2
    /\ \E k \in DOMAIN Declared : live[EntryName(k)] = Legacy
    /\ \E k \in DOMAIN Declared : rows[k].status = "Created"

DuplicateNames == {n \in Names : Cardinality(EntriesOf(n)) >= 2}
FirstOf(n) == CHOOSE k \in EntriesOf(n) : \A m \in EntriesOf(n) : k <= m
LastOf(n) == CHOOSE k \in EntriesOf(n) : \A m \in EntriesOf(n) : m <= k

(* C7 as stated: at the end of the run a name declared more than once is live
   with the driver and attachability of its last entry, whether or not it
   was in the existing set at start.  Stated for runs in which the list
   query and every remove succeeded and no create failed except by the
   orchestrator rejecting a name that is still live. *)
C7_LastDuplicateWins ==
    (pc = "exited" /\ ConfigLoads /\ ListSucceeded) =>
        \A n \in DuplicateNames :
            (/\ \A j \in Removes : cmds[j].ok
             /\ n \in existing => \A k \in EntriesOf(n) : rows[k].status = "Created"
             /\ n \notin existing => rows[FirstOf(n)].status = "Created")
            => live[n] = EntryRequest(LastOf(n))

(* C7 amended: a name declared more than once is processed once per entry.
   If it was in the existing set, every entry removes and recreates it, and
   whenever the last entry's create succeeded the live network is the one
   that entry requested.  If it was not in the existing set, no remove is
   issued for it, at most one of its creates succeeds, and the live network
   is the one requested by the entry whose create succeeded: later entries
   do not overwrite it. *)
C7_DuplicateNamesOutcome ==
    (pc = "exited" /\ ConfigLoads) =>
        \A n \in DuplicateNames :
            /\ n \in existing =>
                /\ \A k \in EntriesOf(n) :
                    cmds[CreateAt(k) - 1].argv = RemoveCommand(n)
                /\ rows[LastOf(n)].status = "Created"
                    => live[n] = EntryRequest(LastOf(n))
            /\ n \notin existing =>
                /\ \A j \in Removes : cmds[j].argv[4] # n
                /\ Cardinality({k \in EntriesOf(n) : rows[k].status = "Created"}) <= 1
                /\ \A k \in EntriesOf(n) :
                    rows[k].status = "Created" => live[n] = EntryRequest(k)

C7_Witness ==
    /\ pc = "exited"
    /\ ListSucceeded
    /\ \E n \in DuplicateNames :
        /\ n \notin existing
        /\ rows[FirstOf(n)].status = "Created"
        /\ rows[LastOf(n)].status = "Failed"
        /\ EntryRequest(FirstOf(n)) # EntryRequest(LastOf(n))
        /\ live[n] = EntryRequest(FirstOf(n))

----------------------------------------------------------------------------
(* Properties of the worker joiners, over the behaviours of SpecJoin *)

IsJoin(c) == c.argv[3] = <<"join">>

JoinProgress == pc # "exited" => ENABLED NextJoin

(* the value config.toml gives a key of its swarm-config table, None if the
   file, the table or the key is missing *)
TomlConfigured(key) ==
    IF cfgFile.exists /\ cfgFile.valid
    THEN Get(Get(cfgFile.data, "swarm-config", EmptyTable), key, None)
    ELSE None

(* the lines of the environment file that assign key *)
Assignments(key) ==
    {k \in DOMAIN envFile.lines :
        /\ IsAssignmentLine(envFile.lines[k])
        /\ Len(SplitOnce(Strip(envFile.lines[k]))) = 2
        /\ SplitOnce(Strip(envFile.lines[k]))[1] = <<key>>}

AssignmentLines == {k \in DOMAIN envFile.lines : IsAssignmentLine(envFile.lines[k])}

(* the value the environment file, or else the inherited environment, gives key *)
EnvConfigured(key) ==
    IF Assignments(key) # {}
    THEN LET k == CHOOSE k \in Assignments(key) : \A m \in Assignments(key) : m <= k
         IN SplitOnce(Strip(envFile.lines[k]))[2]
    ELSE environ[key]

ValueMissing ==
    IF script = "swarm-addworker"
    THEN Falsy(TomlConfigured("manager_ip")) \/ Falsy(TomlConfigured("worker"))
    ELSE \/ Falsy(EnvConfigured("MANAGER_IP"))
         \/ Falsy(EnvConfigured("TOKEN_WORKER"))
         \/ typed = <<>>

ValidationReached ==
    IF script = "swarm-addworker"
    THEN cfgFile.exists /\ cfgFile.valid
    ELSE launch = "module" /\ envFile.exists /\ AssignmentLines = {}

(* C8: in both variants, when the manager IP or the token is empty or absent
   (or, in the interactive variant, the entered worker IP is empty), no join
   command is ever issued and the run ends with a non-zero status; when the
   run gets as far as validating the values, the error is the ValueError of
   the validation. *)
C8_NoJoinWithoutValues ==
    ValueMissing =>
        /\ cmds = <<>>
        /\ JoinProgress
        /\ pc = "exited" =>
            /\ exit = 1
            /\ raised # ""
            /\ ValidationReached => raised = "ValueError"

C8_Witness ==
    /\ pc = "exited"
    /\ script = "swarm-add_worker"
    /\ manager_ip = ManagerIp
    /\ token = WorkerToken
    /\ new_worker_ip = <<>>
    /\ raised = "ValueError"
    /\ cmds = <<>>

(* C9 as stated: in both variants, with a non-empty manager IP and token the
   join command is issued exactly once per run; a failed join ends the run
   with a non-zero status, a successful one with status 0. *)
C9_JoinExactlyOnce ==
    (pc = "exited" /\ ~Falsy(manager_ip) /\ ~Falsy(token)) =>
        /\ Len(cmds) = 1
        /\ IsJoin(cmds[1])
        /\ exit = (IF cmds[1].ok THEN 0 ELSE 1)

(* C9 amended: no run issues more than one join.  With a non-empty manager
   IP and token and, in the interactive variant, a non-empty worker IP, the
   join is issued exactly once: a failed join ends the run with a non-zero
   status and no second join, a successful one ends it with status 0.  In
   the interactive variant an empty worker IP ends the run with no join. *)
C9_JoinOnceWhenValuesPresent ==
    /\ Len(cmds) <= 1
    /\ \A j \in DOMAIN cmds : IsJoin(cmds[j])
    /\ JoinProgress
    /\ (pc = "exited" /\ ~Falsy(manager_ip) /\ ~Falsy(token)) =>
        IF script = "swarm-add_worker" /\ Falsy(new_worker_ip)
        THEN cmds = <<>> /\ exit = 1
        ELSE /\ Len(cmds) = 1
             /\ exit = (IF cmds[1].ok THEN 0 ELSE 1)
             /\ raised = (IF cmds[1].ok THEN "" ELSE "RuntimeError")

C9_Witness ==
    /\ pc = "exited"
    /\ script = "swarm-add_worker"
    /\ new_worker_ip = WorkerIp
    /\ Len(cmds) = 1
    /\ ~cmds[1].ok
    /\ exit = 1

(* C10: in the environment-file variant, an environment file that defines
   non-empty MANAGER_IP and TOKEN_WORKER, its other lines blank or
   #-prefixed comments, leads to one join command whose manager address is
   the MANAGER_IP value followed by :2377 and whose token is the
   TOKEN_WORKER value.  Stated for a run started as a module, with a worker
   IP entered. *)
C10_EnvFileValuesReachJoin ==
    (/\ script = "swarm-add_worker"
     /\ launch = "module"
     /\ pc = "exited"
     /\ envFile.exists
     /\ Assignments("MANAGER_IP") # {}
     /\ Assignments("TOKEN_WORKER") # {}
     /\ AssignmentLines = Assignments("MANAGER_IP") \cup Assignments("TOKEN_WORKER")
     /\ EnvConfigured("MANAGER_IP") # <<>>
     /\ EnvConfigured("TOKEN_WORKER") # <<>>
     /\ typed # <<>>)
    => /\ Len(cmds) = 1
       /\ cmds[1].argv[4] = <<"--token=">> \o EnvConfigured("TOKEN_WORKER")
       /\ cmds[1].argv[5] = EnvConfigured("MANAGER_IP") \o <<":2377">>

====
